---- MODULE Spec2Model ----
(***************************************************************************)
(* Model of beam-deflection/beam_deflection.py: the BeamDeflectionCalculator *)
(* window, its input handlers, the input validation, the section-property   *)
(* formulas and the superposition of point-load deflections.                *)
(*                                                                         *)
(* Python floats are modelled as exact numbers  n/d * pi^k * 10^e  (rounding *)
(* is not modelled) plus the one special value the text fields can inject:  *)
(* NaN, which float("nan") returns, which every comparison answers False to *)
(* and which every arithmetic operation propagates.                        *)
(*                                                                         *)
(* Also modelled, each as a run of its own: gradient_descent of            *)
(* Inspire/GradDescVsDOE/main_gradient_descent.py and the grid search of    *)
(* Inspire/GradDescVsDOE/main_doe.py, with the functions of functions.py.   *)
(***************************************************************************)
EXTENDS Integers, Sequences, FiniteSets, TLC

VARIABLES
    section,            \* the checked radio button of section_group
    text,               \* the text of every QLineEdit, by attribute name
    material,           \* material_combo.currentText()
    single_support,     \* single_support_radio.isChecked()
    forces,             \* self.forces: sequence of <<magnitude, position>>
    force_list,         \* the items of the QListWidget force_list
    weight_label,       \* what weight_label shows
    deflection_label,   \* what deflection_label shows
    calls,              \* what the last calculate() ran, in call order
    result,             \* the values the last calculate() computed
    gd,                 \* a call of gradient_descent: arguments and locals
    doe                 \* a run of main_doe.py: its module-level variables

vars == <<section, text, material, single_support, forces, force_list,
          weight_label, deflection_label, calls, result, gd, doe>>

----------------------------------------------------------------------------
(* Floats: <<n, d, k, e>> is n/d * pi^k * 10^e with d > 0, gcd(n, d) = 1   *)
(* and neither n nor d a multiple of 5; zero is <<0, 1, 0, 0>>.            *)
(* d = 0 marks what is not a number.                                       *)

NaN == <<0, 0, 0, 0>>           \* float("nan")
ValueError == <<0, 0, 1, 0>>    \* float(text) raised ValueError
None == <<0, 0, 2, 0>>          \* no value (nothing was computed)

Flt == Int \X Int \X Int \X Int

IsNaN(a) == a = NaN
IsNumber(a) == a[2] > 0

Abs(i) == IF i < 0 THEN -i ELSE i

\* The arithmetic is written as functions, which evaluate their arguments
\* once, with an operator of the usual name around each.
gcd[a \in Nat, b \in Nat] == IF b = 0 THEN a ELSE gcd[b, a % b]
Gcd(a, b) == gcd[a, b]

pow10[e \in Nat] == IF e = 0 THEN 1 ELSE 10 * pow10[e - 1]
Pow10(e) == pow10[e]

\* Moves every factor 5 of n and of d into the exponent, so that every
\* number has one representation.
strip5[t \in Flt] ==
    IF t[1] % 10 = 0 THEN strip5[<<t[1] \div 10, t[2], t[3], t[4] + 1>>]
    ELSE IF t[1] % 5 = 0 THEN strip5[<<t[1] \div 5, t[2] * 2, t[3], t[4] + 1>>]
    ELSE IF t[2] % 10 = 0 THEN strip5[<<t[1], t[2] \div 10, t[3], t[4] - 1>>]
    ELSE IF t[2] % 5 = 0 THEN strip5[<<t[1] * 2, t[2] \div 5, t[3], t[4] - 1>>]
    ELSE t

frac[t \in Flt] ==
    IF t[1] = 0 THEN <<0, 1, 0, 0>>
    ELSE LET g == gcd[Abs(t[1]), Abs(t[2])]
             s == IF t[2] < 0 THEN -1 ELSE 1
         IN  strip5[<<(s * t[1]) \div g, (s * t[2]) \div g, t[3], t[4]>>]
Frac(n, d, k, e) == frac[<<n, d, k, e>>]

F(i) == Frac(i, 1, 0, 0)        \* the float of an integer literal
PI == <<1, 1, 1, 0>>            \* np.pi

IsZero(a) == IsNumber(a) /\ a[1] = 0

fneg[a \in Flt] == IF IsNaN(a) THEN NaN ELSE <<-a[1], a[2], a[3], a[4]>>
FNeg(a) == fneg[a]

fmul[a \in Flt, b \in Flt] ==
    IF IsNaN(a) \/ IsNaN(b) THEN NaN
    ELSE LET g1 == gcd[Abs(a[1]), b[2]]
             g2 == gcd[Abs(b[1]), a[2]]
         IN  frac[<<(a[1] \div g1) * (b[1] \div g2),
                    (a[2] \div g2) * (b[2] \div g1),
                    a[3] + b[3], a[4] + b[4]>>]
FMul(a, b) == fmul[a, b]

\* numpy division; every divisor of the program is a non-zero literal or
\* 6*E*I(*L) with I > 0 and L > 0 or NaN, so x/0 is never evaluated.
fdiv[a \in Flt, b \in Flt] ==
    IF IsNaN(a) \/ IsNaN(b) \/ IsZero(b) THEN NaN
    ELSE fmul[a, frac[<<b[2], b[1], -b[3], -b[4]>>]]
FDiv(a, b) == fdiv[a, b]

\* Every sum of the program adds terms with the same power of pi.
fadd[a \in Flt, b \in Flt] ==
    IF IsNaN(a) \/ IsNaN(b) THEN NaN
    ELSE IF IsZero(a) THEN b
    ELSE IF IsZero(b) THEN a
    ELSE LET e  == IF a[4] < b[4] THEN a[4] ELSE b[4]
             g  == gcd[a[2], b[2]]
         IN  frac[<<a[1] * pow10[a[4] - e] * (b[2] \div g)
                      + b[1] * pow10[b[4] - e] * (a[2] \div g),
                    (a[2] \div g) * b[2], a[3], e>>]
FAdd(a, b) == fadd[a, b]

FSub(a, b) == fadd[a, fneg[b]]

fpow[a \in Flt, p \in Nat] == IF p = 1 THEN a ELSE fmul[a, fpow[a, p - 1]]
FPow(a, p) == fpow[a, p]

fabs[a \in Flt] == IF IsNaN(a) THEN NaN ELSE <<Abs(a[1]), a[2], a[3], a[4]>>
FAbs(a) == fabs[a]

\* Comparisons: False as soon as one side is NaN.
flt[a \in Flt, b \in Flt] ==
    ~IsNaN(a) /\ ~IsNaN(b) /\ fadd[a, fneg[b]][1] < 0
fle[a \in Flt, b \in Flt] ==
    ~IsNaN(a) /\ ~IsNaN(b) /\ fadd[a, fneg[b]][1] <= 0
FLt(a, b) == flt[a, b]
FLe(a, b) == fle[a, b]
FGt(a, b) == flt[b, a]
FGe(a, b) == fle[b, a]
FEq(a, b) == ~IsNaN(a) /\ ~IsNaN(b) /\ a = b

\* v bound once in Body: LET re-evaluates its definition at every use.
Let(v, Body(_)) == CHOOSE r \in {Body(u) : u \in {v}} : TRUE

----------------------------------------------------------------------------
(* float(text) on the texts the model types into the line edits.           *)

PyFloat(t) ==
    CASE t = "nan"   -> NaN
      [] t = "-3000" -> F(-3000)
      [] t = "-250"  -> F(-250)
      [] t = "-5"    -> F(-5)
      [] t = "0"     -> F(0)
      [] t = "2"     -> F(2)
      [] t = "2.5"   -> Frac(25, 1, 0, -1)
      [] t = "3"     -> F(3)
      [] t = "4"     -> F(4)
      [] t = "5"     -> F(5)
      [] t = "8"     -> F(8)
      [] t = "10"    -> F(10)
      [] t = "20"    -> F(20)
      [] t = "25"    -> F(25)
      [] t = "30"    -> F(30)
      [] t = "40"    -> F(40)
      [] t = "50"    -> F(50)
      [] t = "60"    -> F(60)
      [] t = "80"    -> F(80)
      [] t = "100"   -> F(100)
      [] t = "250"   -> F(250)
      [] t = "500"   -> F(500)
      [] t = "1000"  -> F(1000)
      [] t = "1500"  -> F(1500)
      [] t = "3000"  -> F(3000)
      [] OTHER       -> ValueError     \* "", "abc", ...

----------------------------------------------------------------------------
(* Program data.                                                           *)

Sections == {"Square", "Circular", "I-Beam", "Rectangle", "Circular Tube",
             "Square Tube"}

\* self.materials (E in MPa, density in kg/m^3); poisson is never read by
\* the calculation.
materials ==
    [Aluminum |-> [E |-> 69000,  density |-> 2700],
     Steel    |-> [E |-> 200000, density |-> 7850],
     Oak      |-> [E |-> 11000,  density |-> 750],
     PVC      |-> [E |-> 2800,   density |-> 1400],
     Concrete |-> [E |-> 30000,  density |-> 2400]]

\* The line edits a signal is connected to, and the texts __init__ puts
\* into them. force_magnitude_input and force_position_input have no signal
\* and are read by add_force alone: their texts are that action's input.
DefaultText ==
    [dimension_input             |-> "40",
     i_height_input              |-> "100",
     i_width_input               |-> "50",
     i_web_input                 |-> "5",
     i_flange_input              |-> "8",
     rect_height_input           |-> "80",
     rect_width_input            |-> "40",
     tube_od_input               |-> "60",
     tube_thickness_input        |-> "3",
     square_tube_od_input        |-> "50",
     square_tube_thickness_input |-> "3",
     length_input                |-> "1000"]

\* The line edits is_valid_input and calculate_section_properties read for
\* a section type.
SectionFields(sec) ==
    CASE sec \in {"Square", "Circular"} -> {"dimension_input"}
      [] sec = "I-Beam" -> {"i_height_input", "i_width_input", "i_web_input",
                            "i_flange_input"}
      [] sec = "Rectangle" -> {"rect_height_input", "rect_width_input"}
      [] sec = "Circular Tube" -> {"tube_od_input", "tube_thickness_input"}
      [] OTHER -> {"square_tube_od_input", "square_tube_thickness_input"}

Raises(txt, fields) == \E f \in fields : PyFloat(txt[f]) = ValueError

----------------------------------------------------------------------------
(* is_valid_input: the rejection test of each section type, on the parsed   *)
(* dimensions, and the final test of the length.                           *)

SimpleRejected(dimension) == FLe(dimension, F(0))

IBeamRejected(h, b, tw, tf) ==
    \/ \E x \in {h, b, tw, tf} : FLe(x, F(0))
    \/ FGt(tw, b)
    \/ FGt(FMul(F(2), tf), h)

RectRejected(h, b) == FLe(h, F(0)) \/ FLe(b, F(0))

\* A faulty variant of the tube test: strict, as the I-beam test is, so that
\* 2t = do is let through.  C4 must tell it from TubeRejected.
TubeRejected_strict(do, t) ==
    FLe(do, F(0)) \/ FLe(t, F(0)) \/ FGt(FMul(F(2), t), do)

TubeRejected(do, t) ==
    FLe(do, F(0)) \/ FLe(t, F(0)) \/ FGe(FMul(F(2), t), do)

SquareTubeRejected(a, t) ==
    FLe(a, F(0)) \/ FLe(t, F(0)) \/ FGe(FMul(F(2), t), a)

LengthAccepted(length) == FGt(length, F(0))

SectionRejected(sec, txt) ==
    LET v(f) == PyFloat(txt[f])
    IN  CASE sec \in {"Square", "Circular"} ->
                SimpleRejected(v("dimension_input"))
          [] sec = "I-Beam" ->
                IBeamRejected(v("i_height_input"), v("i_width_input"),
                              v("i_web_input"), v("i_flange_input"))
          [] sec = "Rectangle" ->
                RectRejected(v("rect_height_input"), v("rect_width_input"))
          [] sec = "Circular Tube" ->
                TubeRejected(v("tube_od_input"), v("tube_thickness_input"))
          [] OTHER ->
                SquareTubeRejected(v("square_tube_od_input"),
                                   v("square_tube_thickness_input"))

is_valid_input(sec, txt) ==
    IF Raises(txt, SectionFields(sec)) THEN FALSE          \* except ValueError
    ELSE IF SectionRejected(sec, txt) THEN FALSE
    ELSE IF Raises(txt, {"length_input"}) THEN FALSE       \* except ValueError
    ELSE LengthAccepted(PyFloat(txt["length_input"]))

----------------------------------------------------------------------------
(* calculate_section_properties: <<area, moment of inertia>> in mm^2, mm^4. *)

SquareProps(d) == <<FPow(d, 2), FDiv(FPow(d, 4), F(12))>>

CircleProps(d) ==
    LET r == FDiv(d, F(2))
    IN  <<FMul(PI, FPow(r, 2)), FDiv(FMul(PI, FPow(r, 4)), F(64))>>

IBeamProps(h, b, tw, tf) ==
    LET web       == FSub(h, FMul(F(2), tf))
        A_web     == FMul(tw, web)
        A_flanges == FMul(FMul(F(2), b), tf)
        I_web     == FDiv(FMul(tw, FPow(web, 3)), F(12))
        I_flanges == FMul(F(2),
                          FAdd(FDiv(FMul(b, FPow(tf, 3)), F(12)),
                               FMul(FMul(b, tf),
                                    FPow(FDiv(FSub(h, tf), F(2)), 2))))
    IN  <<FAdd(A_web, A_flanges), FAdd(I_web, I_flanges)>>

RectProps(h, b) == <<FMul(b, h), FDiv(FMul(b, FPow(h, 3)), F(12))>>

\* A faulty variant of the tube formulas: the inner diameter taken for the
\* inner radius.  C7 must tell it from TubeProps.
TubeProps_diameter(do, t) ==
    LET di == FSub(do, FMul(F(2), t))
        ro == FDiv(do, F(2))
        ri == di
    IN  <<FMul(PI, FSub(FPow(ro, 2), FPow(ri, 2))),
          FDiv(FMul(PI, FSub(FPow(ro, 4), FPow(ri, 4))), F(4))>>

TubeProps(do, t) ==
    LET di == FSub(do, FMul(F(2), t))
        ro == FDiv(do, F(2))
        ri == FDiv(di, F(2))
    IN  <<FMul(PI, FSub(FPow(ro, 2), FPow(ri, 2))),
          FDiv(FMul(PI, FSub(FPow(ro, 4), FPow(ri, 4))), F(4))>>

SquareTubeProps(a, t) ==
    LET ai == FSub(a, FMul(F(2), t))
    IN  <<FSub(FPow(a, 2), FPow(ai, 2)),
          FDiv(FSub(FPow(a, 4), FPow(ai, 4)), F(12))>>

calculate_section_properties(sec, txt) ==
    LET v(f) == PyFloat(txt[f])
    IN  CASE sec = "Square"   -> SquareProps(v("dimension_input"))
          [] sec = "Circular" -> CircleProps(v("dimension_input"))
          [] sec = "I-Beam" ->
                IBeamProps(v("i_height_input"), v("i_width_input"),
                           v("i_web_input"), v("i_flange_input"))
          [] sec = "Rectangle" ->
                RectProps(v("rect_height_input"), v("rect_width_input"))
          [] sec = "Circular Tube" ->
                TubeProps(v("tube_od_input"), v("tube_thickness_input"))
          [] OTHER ->
                SquareTubeProps(v("square_tube_od_input"),
                                v("square_tube_thickness_input"))

----------------------------------------------------------------------------
(* calculate_deflection: superposition over self.forces at the sample       *)
(* positions x.                                                            *)

NumSamples == 3     \* np.linspace(0, L, 100): the model samples fewer points

\* np.linspace(0, L, num): num evenly spaced samples from 0 to L inclusive.
linspace(L, num) ==
    [i \in 1..num |-> FMul(F(i - 1), FDiv(L, F(num - 1)))]

\* The boolean masks of the two support conditions.
MaskBefore(cantilever, xv, a) == IF cantilever THEN FLe(xv, a) ELSE FLt(xv, a)
MaskAfter(cantilever, xv, a)  == IF cantilever THEN FGt(xv, a) ELSE FGe(xv, a)

\* The four closed-form terms a load (P, a) adds at position xv.
CantileverBefore(P, a, xv, E, I) ==
    FDiv(FMul(FMul(P, FPow(xv, 2)), FSub(FMul(F(3), a), xv)),
         FMul(FMul(F(6), E), I))

\* A faulty variant of the x > a term of the cantilever, which does not meet
\* the x <= a term at x = a.  C12 must tell it from CantileverAfter.
CantileverAfter_jump(P, a, xv, E, I) ==
    FDiv(FMul(FMul(P, FPow(a, 2)), FSub(FMul(F(3), xv), FMul(F(2), a))),
         FMul(FMul(F(6), E), I))

CantileverAfter(P, a, xv, E, I) ==
    FDiv(FMul(FMul(P, FPow(a, 2)), FSub(FMul(F(3), xv), a)),
         FMul(FMul(F(6), E), I))

\* A faulty variant of the x < a term of the simply supported beam, with a^2
\* for b^2.  C20 must tell it from SupportedBefore.
SupportedBefore_a2(P, a, xv, L, E, I) ==
    LET b == FSub(L, a)
    IN  FDiv(FMul(FMul(FMul(P, b), xv),
                  FSub(FSub(FPow(L, 2), FPow(a, 2)), FPow(xv, 2))),
             FMul(FMul(FMul(F(6), E), I), L))

SupportedBefore(P, a, xv, L, E, I) ==
    LET b == FSub(L, a)
    IN  FDiv(FMul(FMul(FMul(P, b), xv),
                  FSub(FSub(FPow(L, 2), FPow(b, 2)), FPow(xv, 2))),
             FMul(FMul(FMul(F(6), E), I), L))

\* A faulty variant of the x >= a term of the simply supported beam, with
\* (x - L) for (L - x).  C14 must tell it from SupportedAfter.
SupportedAfter_flipped(P, a, xv, L, E, I) ==
    FDiv(FMul(FMul(FMul(P, a), FSub(xv, L)),
              FSub(FSub(FMul(FMul(F(2), L), xv), FPow(xv, 2)), FPow(a, 2))),
         FMul(FMul(FMul(F(6), E), I), L))

SupportedAfter(P, a, xv, L, E, I) ==
    FDiv(FMul(FMul(FMul(P, a), FSub(L, xv)),
              FSub(FSub(FMul(FMul(F(2), L), xv), FPow(xv, 2)), FPow(a, 2))),
         FMul(FMul(FMul(F(6), E), I), L))

\* A faulty variant of the loop body: the masked samples are assigned, not
\* added to, so that each load overwrites the loads before it.  C11 must
\* tell it from AddLoad.
AddLoad_overwrite(yv, load, xv, L, E, I, cantilever) ==
    LET P  == load[1]
        a  == load[2]
        y1 == IF MaskBefore(cantilever, xv, a)
              THEN IF cantilever
                   THEN CantileverBefore(P, a, xv, E, I)
                   ELSE SupportedBefore(P, a, xv, L, E, I)
              ELSE yv
    IN  IF MaskAfter(cantilever, xv, a)
        THEN IF cantilever
             THEN CantileverAfter(P, a, xv, E, I)
             ELSE SupportedAfter(P, a, xv, L, E, I)
        ELSE y1

\* One pass of the loop body for one load, at one sample: the two masked +=.
AddLoad(yv, load, xv, L, E, I, cantilever) ==
    LET P  == load[1]
        a  == load[2]
        y1 == IF MaskBefore(cantilever, xv, a)
              THEN FAdd(yv, IF cantilever
                            THEN CantileverBefore(P, a, xv, E, I)
                            ELSE SupportedBefore(P, a, xv, L, E, I))
              ELSE yv
    IN  IF MaskAfter(cantilever, xv, a)
        THEN FAdd(y1, IF cantilever
                      THEN CantileverAfter(P, a, xv, E, I)
                      ELSE SupportedAfter(P, a, xv, L, E, I))
        ELSE y1

\* y at one sample after the loop over self.forces, starting from
\* np.zeros_like(x).
DeflectionAt(fs, xv, L, E, I, cantilever) ==
    LET acc[n \in 0..Len(fs)] ==
            IF n = 0 THEN F(0)
            ELSE AddLoad(acc[n - 1], fs[n], xv, L, E, I, cantilever)
    IN  acc[Len(fs)]

calculate_deflection(x, L, E, I, cantilever, fs) ==
    IF fs = <<>> THEN [i \in 1..Len(x) |-> F(0)]      \* if not self.forces
    ELSE [i \in 1..Len(x) |->
             DeflectionAt(fs, x[i], L, E, I, cantilever)]

\* np.max(np.abs(y)): NaN as soon as one element is NaN.
fmax[m \in Flt, v \in Flt] ==
    IF IsNaN(m) \/ IsNaN(v) THEN NaN ELSE IF flt[m, v] THEN v ELSE m

\* A faulty variant: np.max(y), the absolute value forgotten.  C16 must
\* tell it from MaxAbs.
MaxAbs_signed(y) ==
    LET mx[n \in 1..Len(y)] ==
            IF n = 1 THEN y[1] ELSE fmax[mx[n - 1], y[n]]
    IN  mx[Len(y)]

MaxAbs(y) ==
    LET mx[n \in 1..Len(y)] ==
            IF n = 1 THEN fabs[y[1]] ELSE fmax[mx[n - 1], fabs[y[n]]]
    IN  mx[Len(y)]

----------------------------------------------------------------------------
(* calculate: validation, then weight, deflection, labels and the plots.    *)

ErrorLabel == [text |-> "Error: Please check input values", value |-> None]
EmptyLabel == [text |-> "", value |-> None]
WeightLabel(w) == [text |-> "Beam Weight: {weight:.3f} kg", value |-> w]
DeflectionLabel(m) ==
    [text |-> "Maximum Deflection: {max_deflection:.5f} mm", value |-> m]

NotComputed ==
    [A |-> None, I |-> None, weight |-> None, x |-> <<>>, y |-> <<>>,
     max_deflection |-> None]

\* plot_cross_section's max_dim reads two line edits, not always those of
\* the section drawn; a NaN max_dim makes set_xlim raise ValueError.
MaxDimFields(sec) ==
    << CASE sec \in {"Square", "Circular"} -> "dimension_input"
         [] sec = "I-Beam" -> "i_height_input"
         [] OTHER -> "rect_height_input",
       CASE sec = "I-Beam" -> "i_width_input"
         [] sec = "Rectangle" -> "rect_width_input"
         [] sec = "Circular Tube" -> "tube_od_input"
         [] OTHER -> "square_tube_od_input" >>

plot_cross_section_raises(sec, txt) ==
    LET fs == MaxDimFields(sec)
        u  == PyFloat(txt[fs[1]])
        w  == PyFloat(txt[fs[2]])
    IN  \/ Raises(txt, {fs[1], fs[2]})
        \/ IsNaN(IF FGt(w, u) THEN w ELSE u)        \* max([u, w])

\* y_max is NaN when y holds a NaN, and set_ylim then raises ValueError.
deflection_plot_raises(y) == \E i \in 1..Len(y) : IsNaN(y[i])

\* What calculate() leaves behind once the inputs are valid and weight,
\* x, y and max_deflection are computed: the labels are set, then the two
\* plots are drawn, and a ValueError on the way puts the error labels back.
Outcome(sec, txt, res) ==
    LET done == <<"is_valid_input", "calculate_section_properties",
                  "calculate_deflection", "plot_cross_section">>
    IN  IF plot_cross_section_raises(sec, txt)
        THEN [weight_label |-> ErrorLabel, deflection_label |-> EmptyLabel,
              calls |-> done, result |-> res]
        ELSE IF deflection_plot_raises(res.y)
        THEN [weight_label |-> ErrorLabel, deflection_label |-> EmptyLabel,
              calls |-> done \o <<"cross_section_canvas.draw">>,
              result |-> res]
        ELSE [weight_label |-> WeightLabel(res.weight),
              deflection_label |-> DeflectionLabel(res.max_deflection),
              calls |-> done \o <<"cross_section_canvas.draw",
                                  "deflection_canvas.draw">>,
              result |-> res]

\* A faulty variant of the weight: mm^3 taken to m^3 with 1e6.  C15 must
\* tell it from Weight.
Weight_1e6(density, A, L) == FDiv(FMul(FMul(density, A), L), F(1000000))

\* weight = density * A * L / 1e9: kg, from kg/m^3, mm^2 and mm.
Weight(density, A, L) == FDiv(FMul(FMul(density, A), L), F(1000000000))

calculate(sec, txt, mat, cantilever, fs) ==
    IF ~is_valid_input(sec, txt)
    THEN [weight_label     |-> ErrorLabel,
          deflection_label |-> EmptyLabel,
          calls            |-> <<"is_valid_input">>,
          result           |-> NotComputed]
    ELSE
    LET L       == PyFloat(txt["length_input"])
        E       == F(materials[mat].E)
        density == F(materials[mat].density)
    IN  Let(calculate_section_properties(sec, txt), LAMBDA AI :
        Let(linspace(L, NumSamples), LAMBDA x :
        Let(calculate_deflection(x, L, E, AI[2], cantilever, fs), LAMBDA y :
        Let([A |-> AI[1], I |-> AI[2],
             weight |-> Weight(density, AI[1], L),
             x |-> x, y |-> y, max_deflection |-> MaxAbs(y)], LAMBDA res :
        Outcome(sec, txt, res)))))

\* The part of the next state that calculate() writes.
Calculated(sec, txt, mat, cantilever, fs) ==
    \E c \in {calculate(sec, txt, mat, cantilever, fs)} :
        /\ weight_label' = c.weight_label
        /\ deflection_label' = c.deflection_label
        /\ calls' = c.calls
        /\ result' = c.result

----------------------------------------------------------------------------
(* The texts and choices the model's user makes.                           *)

MaxForces == 2      \* the model stops adding forces at this list length

LengthTexts    == {"1000", "500", "0", "-250", "nan", "abc"}
DimensionTexts == {"40", "20"}
MagnitudeTexts == {"3000", "-3000", "0"}
PositionTexts  == {"0", "500", "1000", "-250", ""}
MaterialChoices == {"Aluminum", "Steel"}

\* The texts InitSection draws for the line edits of the section shown.
SectionTexts(field) ==
    CASE field = "dimension_input"      -> {"40", "60", "0", "-5", "nan", "abc"}
      [] field = "i_height_input"       -> {"100", "10", "0", "nan"}
      [] field = "i_width_input"        -> {"50", "5", "-5", "abc"}
      [] field = "i_web_input"          -> {"5", "8", "0"}
      [] field = "i_flange_input"       -> {"8", "5", "-5", "nan"}
      [] field = "rect_height_input"    -> {"80", "20", "0", "nan", "abc"}
      [] field = "rect_width_input"     -> {"40", "-5", "nan"}
      [] field = "tube_od_input"        -> {"60", "10", "0", "nan"}
      [] field = "tube_thickness_input" -> {"3", "5", "8", "0", "nan"}
      [] field = "square_tube_od_input" -> {"50", "10", "-5", "abc"}
      [] field = "square_tube_thickness_input" -> {"3", "5", "8", "0"}
      [] OTHER                          -> {"1000"}

----------------------------------------------------------------------------
(* The handlers.                                                           *)

\* textChanged of a line edit -> on_input_change -> calculate.
on_input_change(field, t) ==
    /\ t # text[field]
    /\ text' = [text EXCEPT ![field] = t]
    /\ Calculated(section, text', material, single_support, forces)
    /\ UNCHANGED <<section, material, single_support, forces, force_list>>

EditLength == \E t \in LengthTexts : on_input_change("length_input", t)

EditDimension ==
    /\ section \in {"Square", "Circular"}       \* the widget is shown
    /\ \E t \in DimensionTexts : on_input_change("dimension_input", t)

\* support_group.buttonClicked -> on_input_change -> calculate.
SupportClicked ==
    \E b \in BOOLEAN :
        /\ single_support' = b
        /\ Calculated(section, text, material, b, forces)
        /\ UNCHANGED <<section, text, material, forces, force_list>>

\* section_group.buttonClicked -> on_section_change -> calculate.
on_section_change ==
    \E s \in Sections :
        /\ section' = s
        /\ Calculated(s, text, material, single_support, forces)
        /\ UNCHANGED <<text, material, single_support, forces, force_list>>

\* A faulty variant of the handler, whose calculation uses the stored loads
\* up: self.forces is empty afterwards.  C18 must tell it from
\* on_material_change.
on_material_change_draining ==
    \E m \in MaterialChoices :
        /\ m # material
        /\ material' = m
        /\ Calculated(section, text, m, single_support, forces)
        /\ forces' = <<>>
        /\ UNCHANGED <<section, text, single_support, force_list>>

\* material_combo.currentTextChanged -> on_material_change: the category
\* headers and separators are disabled, so the text is always a material.
on_material_change ==
    \E m \in MaterialChoices :
        /\ m # material
        /\ material' = m
        /\ Calculated(section, text, m, single_support, forces)
        /\ UNCHANGED <<section, text, single_support, forces, force_list>>

\* The list item add_force shows for a force.
ForceItem(magnitude, position) ==
    [sign |-> IF FGt(magnitude, F(0)) THEN "+"
              ELSE IF FLt(magnitude, F(0)) THEN "-" ELSE "",
     magnitude |-> FAbs(magnitude),
     position |-> position]

\* add_force's test of the parsed inputs: TRUE when the force is dropped.
ForceRejected(magnitude, position, L) ==
    FEq(magnitude, F(0)) \/ FLt(position, F(0)) \/ FGt(position, L)

\* The user types m and p into the two force line edits and clicks
\* "Add Force".
add_force(positions) ==
    \E m \in MagnitudeTexts, p \in positions :
        LET magnitude == PyFloat(m)
            position  == PyFloat(p)
            L         == PyFloat(text["length_input"])
        IN  /\ Len(forces) < MaxForces
            /\ IF \/ ValueError \in {magnitude, position, L}  \* except: pass
                  \/ ForceRejected(magnitude, position, L)    \* return
               THEN UNCHANGED <<forces, force_list, weight_label,
                                deflection_label, calls, result>>
               ELSE /\ forces' = Append(forces, <<magnitude, position>>)
                    /\ force_list' =
                           Append(force_list, ForceItem(magnitude, position))
                    /\ Calculated(section, text, material, single_support,
                                  forces')
            /\ UNCHANGED <<section, text, material, single_support>>

RemoveAt(seq, i) == SubSeq(seq, 1, i - 1) \o SubSeq(seq, i + 1, Len(seq))

\* A faulty variant of the handler: self.forces.pop() without the row, so
\* that the last stored load goes whatever row was selected.  C19 must tell
\* it from remove_force.
remove_force_pop_last ==
    \E current_row \in -1..(Len(force_list) - 1) :
        /\ IF current_row >= 0
           THEN /\ force_list' = RemoveAt(force_list, current_row + 1)
                /\ forces' = RemoveAt(forces, Len(forces))
                /\ Calculated(section, text, material, single_support,
                              forces')
           ELSE UNCHANGED <<forces, force_list, weight_label,
                            deflection_label, calls, result>>
        /\ UNCHANGED <<section, text, material, single_support>>

\* current_row is force_list.currentRow(): -1 when no row is selected.
remove_force ==
    \E current_row \in -1..(Len(force_list) - 1) :
        /\ IF current_row >= 0
           THEN /\ force_list' = RemoveAt(force_list, current_row + 1)
                /\ forces' = RemoveAt(forces, current_row + 1)
                /\ Calculated(section, text, material, single_support,
                              forces')
           ELSE UNCHANGED <<forces, force_list, weight_label,
                            deflection_label, calls, result>>
        /\ UNCHANGED <<section, text, material, single_support>>

----------------------------------------------------------------------------
(* Spec: the window from its construction, with the section type left at    *)
(* Square: length, dimension, material, support and force edits.           *)

\* The two scripts are programs of their own: while the window is modelled
\* neither of them runs.
NotRun == [pc |-> "not run"]

InitWindow ==
    /\ section = "Square"
    /\ text = DefaultText
    /\ material = "Aluminum"
    /\ single_support = TRUE
    /\ forces = <<>>
    /\ force_list = <<>>
    /\ \E c \in {calculate(section, text, material, single_support, forces)} :
           /\ weight_label = c.weight_label
           /\ deflection_label = c.deflection_label
           /\ calls = c.calls
           /\ result = c.result

Init == InitWindow /\ gd = NotRun /\ doe = NotRun

AddForce == add_force(PositionTexts)

Next ==
    /\ \/ EditLength
       \/ EditDimension
       \/ SupportClicked
       \/ on_material_change
       \/ AddForce
       \/ remove_force
    /\ UNCHANGED <<gd, doe>>

Spec == Init /\ [][Next]_vars

(* SpecNaN: the same window and user, who may also type "nan" as the        *)
(* position of a force.                                                    *)

AddForceNaN == add_force(PositionTexts \cup {"nan"})

NextNaN ==
    /\ \/ EditLength
       \/ EditDimension
       \/ SupportClicked
       \/ on_material_change
       \/ AddForceNaN
       \/ remove_force
    /\ UNCHANGED <<gd, doe>>

SpecNaN == Init /\ [][NextNaN]_vars

(* SpecSection: the window after the user picked a section type and typed  *)
(* its dimensions (the other line edits still hold their defaults); the     *)
(* user then clicks through the section types, the supports and the        *)
(* materials. No force is ever added.                                      *)

InitSection ==
    /\ section \in Sections
    /\ \E typed \in [SectionFields(section) ->
                        UNION {SectionTexts(f) : f \in SectionFields(section)}] :
           /\ \A f \in SectionFields(section) : typed[f] \in SectionTexts(f)
           /\ text = [f \in DOMAIN DefaultText |->
                         IF f \in SectionFields(section) THEN typed[f]
                         ELSE DefaultText[f]]
    /\ material = "Aluminum"
    /\ single_support = TRUE
    /\ forces = <<>>
    /\ force_list = <<>>
    /\ \E c \in {calculate(section, text, material, single_support, forces)} :
           /\ weight_label = c.weight_label
           /\ deflection_label = c.deflection_label
           /\ calls = c.calls
           /\ result = c.result
    /\ gd = NotRun
    /\ doe = NotRun

NextSection ==
    /\ \/ on_section_change
       \/ SupportClicked
       \/ on_material_change
    /\ UNCHANGED <<gd, doe>>

SpecSection == InitSection /\ [][NextSection]_vars

----------------------------------------------------------------------------
(* functions.py: points are pairs <<x[0], x[1]>> of floats.                 *)

\* np.sin and np.cos, tabulated to two decimals at the coordinates the grid
\* search evaluates them at.
np_sin(a) ==
    CASE a = F(-5) -> Frac(96, 1, 0, -2)
      [] a = Frac(25, 1, 0, -1) -> Frac(60, 1, 0, -2)
      [] a = F(10) -> Frac(-54, 1, 0, -2)
      [] a = F(0) -> F(0)
      [] a = F(5) -> Frac(-96, 1, 0, -2)
      [] OTHER -> NaN

np_cos(a) ==
    CASE a = F(-10) \/ a = F(10) -> Frac(-84, 1, 0, -2)
      [] a = F(0) -> F(1)
      [] a = Frac(-10, 3, 0, 0) \/ a = Frac(10, 3, 0, 0) -> Frac(-98, 1, 0, -2)
      [] OTHER -> NaN

objective_high_nonlinear(x) ==
    FAdd(FAdd(FPow(FSub(x[1], F(3)), 2), FPow(FAdd(x[2], F(1)), 2)),
         FMul(FMul(FMul(F(9), np_sin(x[1])), F(7)), np_cos(x[2])))

objective(x) ==
    FAdd(FPow(FSub(x[1], F(3)), 2), FPow(FAdd(x[2], F(1)), 2))

gradient(x) ==
    <<FMul(F(2), FSub(x[1], F(3))), FMul(F(2), FAdd(x[2], F(1)))>>

----------------------------------------------------------------------------
(* main_gradient_descent.py: one call of gradient_descent with the smooth  *)
(* gradient.                                                               *)

MaxIters == 3       \* max_iters=1000: the model's calls are given 0..MaxIters

StartingPoints == {<<0, 0>>, <<3, -1>>, <<5, 1>>}
LearningRates == {Frac(2, 1, 0, -1), Frac(5, 1, 0, -1), F(1)}
Tolerances == {Frac(1, 1, 0, -3), F(1), F(0)}

\* np.array(starting_point, dtype=float)
np_array(p) == <<F(p[1]), F(p[2])>>

\* point - learning_rate * grad
Descend(point, learning_rate, grad) ==
    <<FSub(point[1], FMul(learning_rate, grad[1])),
      FSub(point[2], FMul(learning_rate, grad[2]))>>

\* A faulty variant of the stopping test, with <= for <.
NormBelow_or_equal(x_new, point, tolerance) ==
    LET dx == FSub(x_new[1], point[1])
        dy == FSub(x_new[2], point[2])
    IN  /\ FGe(tolerance, F(0))
        /\ FLe(FAdd(FMul(dx, dx), FMul(dy, dy)), FMul(tolerance, tolerance))

\* np.linalg.norm(x_new - point) < tolerance, decided on the squares: the
\* norm is >= 0, so no tolerance <= 0 is above it.
NormBelow(x_new, point, tolerance) ==
    LET dx == FSub(x_new[1], point[1])
        dy == FSub(x_new[2], point[2])
    IN  /\ FGt(tolerance, F(0))
        /\ FLt(FAdd(FMul(dx, dx), FMul(dy, dy)), FMul(tolerance, tolerance))

\* The call: the arguments are bound, point and path are set, and control
\* is at the head of the for loop with i iterations behind it.
gradient_descent_called ==
    \E s \in StartingPoints, lr \in LearningRates,
       n \in 0..MaxIters, tol \in Tolerances :
        gd = [pc |-> "for", starting_point |-> s, learning_rate |-> lr,
              max_iters |-> n, tolerance |-> tol,
              i |-> 0, point |-> np_array(s), path |-> <<np_array(s)>>]

\* One pass through the loop body: the new point is appended, then the loop
\* is left by break, and the function returns, or point is rebound.
gradient_descent_iteration ==
    /\ gd.pc = "for"
    /\ gd.i < gd.max_iters
    /\ \E x_new \in {Descend(gd.point, gd.learning_rate, gradient(gd.point))} :
           IF NormBelow(x_new, gd.point, gd.tolerance)
           THEN gd' = [gd EXCEPT !.path = Append(gd.path, x_new),
                                 !.pc = "return"]
           ELSE gd' = [gd EXCEPT !.path = Append(gd.path, x_new),
                                 !.point = x_new,
                                 !.i = gd.i + 1]
    /\ UNCHANGED <<section, text, material, single_support, forces,
                   force_list, weight_label, deflection_label, calls, result,
                   doe>>

\* range(max_iters) is exhausted: return path.
gradient_descent_return ==
    /\ gd.pc = "for"
    /\ gd.i = gd.max_iters
    /\ gd' = [gd EXCEPT !.pc = "return"]
    /\ UNCHANGED <<section, text, material, single_support, forces,
                   force_list, weight_label, deflection_label, calls, result,
                   doe>>

InitGD == InitWindow /\ gradient_descent_called /\ doe = NotRun

NextGD == gradient_descent_iteration \/ gradient_descent_return

\* The function runs to its end without waiting for anything.
SpecGD == InitGD /\ [][NextGD]_vars /\ WF_vars(NextGD)

----------------------------------------------------------------------------
(* main_doe.py: the grid search.                                           *)

GridPoints == 3     \* np.linspace(..., 30): the model's grids have 1..GridPoints

\* float("inf")
Inf == <<1, 0, 0, 0>>

\* np.linspace(start, stop, num)
np_linspace(start, stop, num) ==
    IF num = 1 THEN <<start>>
    ELSE [i \in 1..num |->
             FAdd(start, FMul(F(i - 1), FDiv(FSub(stop, start), F(num - 1))))]

\* A faulty variant of the comparison, turned round.
LessThanBest_greater(val, best_val) ==
    IF best_val = Inf THEN IsNumber(val) ELSE FGt(val, best_val)

\* val < best_val, where best_val starts as float("inf")
LessThanBest(val, best_val) ==
    IF best_val = Inf THEN IsNumber(val) ELSE FLt(val, best_val)

\* The script up to the loops: the grids, best_x and best_val are set.
\* visited lists the points the loop body has evaluated.
doe_started ==
    \E smooth \in BOOLEAN, nx \in 1..GridPoints, ny \in 1..GridPoints :
        doe = [pc |-> "for", smooth_function |-> smooth,
               x_vals |-> np_linspace(F(-5), F(10), nx),
               y_vals |-> np_linspace(F(-10), F(10), ny),
               ix |-> 1, iy |-> 1,
               best_x |-> None, best_val |-> Inf, visited |-> <<>>]

\* One pass through the body of the inner loop, for x = x_vals[ix] and
\* y = y_vals[iy], and the move to the next pair.
doe_iteration ==
    /\ doe.pc = "for"
    /\ doe.ix <= Len(doe.x_vals)
    /\ LET xy   == <<doe.x_vals[doe.ix], doe.y_vals[doe.iy]>>
           last == doe.iy = Len(doe.y_vals)
       IN  \E val \in {IF doe.smooth_function THEN objective(xy)
                        ELSE objective_high_nonlinear(xy)} :
               doe' = [doe EXCEPT
                         !.best_val = IF LessThanBest(val, doe.best_val)
                                      THEN val ELSE @,
                         !.best_x   = IF LessThanBest(val, doe.best_val)
                                      THEN xy ELSE @,
                         !.visited  = Append(@, xy),
                         !.ix = IF last THEN @ + 1 ELSE @,
                         !.iy = IF last THEN 1 ELSE @ + 1]
    /\ UNCHANGED <<section, text, material, single_support, forces,
                   force_list, weight_label, deflection_label, calls, result,
                   gd>>

\* Both loops are done: the result is printed.
doe_print ==
    /\ doe.pc = "for"
    /\ doe.ix > Len(doe.x_vals)
    /\ doe' = [doe EXCEPT !.pc = "print"]
    /\ UNCHANGED <<section, text, material, single_support, forces,
                   force_list, weight_label, deflection_label, calls, result,
                   gd>>

InitDOE == InitWindow /\ doe_started /\ gd = NotRun

NextDOE == doe_iteration \/ doe_print

SpecDOE == InitDOE /\ [][NextDOE]_vars

----------------------------------------------------------------------------
(* What the claims speak of.                                               *)

SpanLength == PyFloat(text["length_input"])
Dim(field) == PyFloat(text[field])
Ran(method) == \E i \in 1..Len(calls) : calls[i] = method

\* The error outcome of calculate(), and a call that stopped at validation.
ErrorOutcome == weight_label = ErrorLabel /\ deflection_label = EmptyLabel
NothingComputed == calls = <<"is_valid_input">> /\ result = NotComputed

\* 0 <= position <= L, for a span length L that is a number.
LoadInSpan(load, L) ==
    IsNumber(L) /\ FLe(F(0), load[2]) /\ FLe(load[2], L)

\* C1: every load that calculate_deflection reads lies within the current
\* span, 0 <= position <= span length, whatever forces were added and removed
\* and however the length was edited.
C1_LoadsWithinSpan ==
    Ran("calculate_deflection") =>
        \A i \in 1..Len(forces) : LoadInSpan(forces[i], SpanLength)

\* C2: with a stored load outside [0, span length] the calculation ends in
\* the error outcome and computes nothing.
C2_OutOfSpanLoadFailsValidation ==
    (\E i \in 1..Len(forces) : ~LoadInSpan(forces[i], SpanLength))
        => ErrorOutcome /\ NothingComputed

\* C3: an I-beam with a dimension <= 0, or webThickness > flangeWidth, or
\* 2*flangeThickness >= height, is rejected and its properties are never
\* computed.
C3_IBeamRejected ==
    LET h  == Dim("i_height_input")
        b  == Dim("i_width_input")
        tw == Dim("i_web_input")
        tf == Dim("i_flange_input")
    IN  ( /\ section = "I-Beam"
          /\ ~Raises(text, SectionFields("I-Beam"))
          /\ \/ \E x \in {h, b, tw, tf} : FLe(x, F(0))
             \/ FGt(tw, b)
             \/ FGe(FMul(F(2), tf), h) )
        => ErrorOutcome /\ NothingComputed

\* The dimensions C4 says are rejected, for the five sections it names.
C4_BadDimensions ==
    CASE section \in {"Square", "Circular"} -> FLe(Dim("dimension_input"), F(0))
      [] section = "Rectangle" ->
            \/ FLe(Dim("rect_height_input"), F(0))
            \/ FLe(Dim("rect_width_input"), F(0))
      [] section = "Circular Tube" ->
            \/ FLe(Dim("tube_od_input"), F(0))
            \/ FLe(Dim("tube_thickness_input"), F(0))
            \/ FGe(FMul(F(2), Dim("tube_thickness_input")), Dim("tube_od_input"))
      [] section = "Square Tube" ->
            \/ FLe(Dim("square_tube_od_input"), F(0))
            \/ FLe(Dim("square_tube_thickness_input"), F(0))
            \/ FGe(FMul(F(2), Dim("square_tube_thickness_input")),
                   Dim("square_tube_od_input"))
      [] OTHER -> FALSE

\* C4: for Square, Circle, Rectangle and the two tubes a dimension <= 0, and
\* for the tubes 2*wallThickness >= the outer dimension, is rejected with the
\* error outcome; calculate_section_properties runs only in a call whose
\* first step, is_valid_input, accepted the current inputs.
C4_SolidAndTubeRejected ==
    /\ ( /\ section # "I-Beam"
         /\ ~Raises(text, SectionFields(section))
         /\ C4_BadDimensions )
       => ErrorOutcome /\ NothingComputed
    /\ Ran("calculate_section_properties")
       => calls[1] = "is_valid_input" /\ calls[2] = "calculate_section_properties"
          /\ ~Raises(text, SectionFields(section) \cup {"length_input"})
          /\ (section # "I-Beam" => ~C4_BadDimensions)

\* A circular tube whose wall is exactly half the outer diameter, rejected
\* by the calculate() that a click on the simply-supported radio started.
C4_Witness ==
    /\ section = "Circular Tube"
    /\ ~single_support
    /\ IsNumber(Dim("tube_od_input"))
    /\ FMul(F(2), Dim("tube_thickness_input")) = Dim("tube_od_input")
    /\ ErrorOutcome

\* The cross-section invariant of the data model: every dimension a number
\* > 0; I-beam: web <= flange width and 2*flange thickness < height; tubes:
\* 2*wall thickness < outer dimension.
SectionValidPerSpec ==
    /\ \A f \in SectionFields(section) : IsNumber(Dim(f)) /\ FGt(Dim(f), F(0))
    /\ section = "I-Beam" =>
          /\ FLe(Dim("i_web_input"), Dim("i_width_input"))
          /\ FLt(FMul(F(2), Dim("i_flange_input")), Dim("i_height_input"))
    /\ section = "Circular Tube" =>
          FLt(FMul(F(2), Dim("tube_thickness_input")), Dim("tube_od_input"))
    /\ section = "Square Tube" =>
          FLt(FMul(F(2), Dim("square_tube_thickness_input")),
              Dim("square_tube_od_input"))

LengthValidPerSpec == IsNumber(SpanLength) /\ FGt(SpanLength, F(0))

\* C5: with a span length <= 0 or not a number, or an invalid cross-section,
\* calculate yields only the error outcome: error marker, empty deflection
\* label, nothing computed.
C5_InvalidInputYieldsOnlyError ==
    (~LengthValidPerSpec \/ ~SectionValidPerSpec)
        => ErrorOutcome /\ NothingComputed

\* The part of C5 that is about the span length alone.
C5_InvalidLengthYieldsOnlyError ==
    ~LengthValidPerSpec => ErrorOutcome /\ NothingComputed

\* C6: dimensions that pass validation give a strictly positive area and a
\* strictly positive second moment of area.
C6_ValidSectionHasPositiveProperties ==
    Ran("calculate_section_properties")
        => FGt(result.A, F(0)) /\ FGt(result.I, F(0))

\* The part of C6 that is about dimensions that are numbers.
C6_NumericSectionHasPositiveProperties ==
    ( /\ Ran("calculate_section_properties")
      /\ \A f \in SectionFields(section) : IsNumber(Dim(f)) )
        => FGt(result.A, F(0)) /\ FGt(result.I, F(0))

\* The table of the specification: <<area, moment of inertia>>.
C7_Table ==
    CASE section = "Square" ->
            LET d == Dim("dimension_input")
            IN  <<FMul(d, d), FDiv(FMul(FMul(d, d), FMul(d, d)), F(12))>>
      [] section = "Circular" ->
            LET r == FDiv(Dim("dimension_input"), F(2))
            IN  <<FMul(PI, FMul(r, r)),
                  FDiv(FMul(PI, FMul(FMul(r, r), FMul(r, r))), F(64))>>
      [] section = "Rectangle" ->
            LET h == Dim("rect_height_input")
                b == Dim("rect_width_input")
            IN  <<FMul(b, h), FDiv(FMul(b, FMul(h, FMul(h, h))), F(12))>>
      [] section = "I-Beam" ->
            LET h  == Dim("i_height_input")
                b  == Dim("i_width_input")
                tw == Dim("i_web_input")
                tf == Dim("i_flange_input")
                hw == FSub(h, FMul(F(2), tf))
                c  == FDiv(FSub(h, tf), F(2))
            IN  <<FAdd(FMul(tw, hw), FMul(F(2), FMul(b, tf))),
                  FAdd(FDiv(FMul(tw, FMul(hw, FMul(hw, hw))), F(12)),
                       FMul(F(2),
                            FAdd(FDiv(FMul(b, FMul(tf, FMul(tf, tf))), F(12)),
                                 FMul(FMul(b, tf), FMul(c, c)))))>>
      [] section = "Circular Tube" ->
            LET ro == FDiv(Dim("tube_od_input"), F(2))
                ri == FSub(ro, Dim("tube_thickness_input"))
            IN  <<FMul(PI, FSub(FMul(ro, ro), FMul(ri, ri))),
                  FDiv(FMul(PI, FSub(FMul(FMul(ro, ro), FMul(ro, ro)),
                                     FMul(FMul(ri, ri), FMul(ri, ri)))),
                       F(4))>>
      [] OTHER ->
            LET a  == Dim("square_tube_od_input")
                ai == FSub(a, FMul(F(2), Dim("square_tube_thickness_input")))
            IN  <<FSub(FMul(a, a), FMul(ai, ai)),
                  FDiv(FSub(FMul(FMul(a, a), FMul(a, a)),
                            FMul(FMul(ai, ai), FMul(ai, ai))), F(12))>>

\* C7: for every section type and every accepted set of numeric dimensions,
\* calculate_section_properties returns the area and the moment of inertia
\* of the specification's table.
C7_PropertiesMatchTable ==
    ( /\ Ran("calculate_section_properties")
      /\ \A f \in SectionFields(section) : IsNumber(Dim(f)) )
        => result.A = C7_Table[1] /\ result.I = C7_Table[2]

\* A circular tube with numeric dimensions whose properties were computed
\* by the calculate() that a change of material started.
C7_Witness ==
    /\ section = "Circular Tube"
    /\ material = "Steel"
    /\ Ran("calculate_section_properties")
    /\ IsNumber(result.A) /\ IsNumber(result.I)
    /\ weight_label = WeightLabel(result.weight)

\* C8: at the closed limit (inner radius or inner side 0) the tube formulas
\* give the solid section of the same outer dimension, so the area and the
\* moment of inertia of a valid tube never exceed those of that solid.
C8_TubeReducesToSolid ==
    /\ ( /\ section = "Circular Tube"
         /\ Ran("calculate_section_properties")
         /\ IsNumber(result.A) )
       => LET do    == Dim("tube_od_input")
              solid == CircleProps(do)
          IN  /\ TubeProps(do, FDiv(do, F(2))) = solid
              /\ FLe(result.A, solid[1])
              /\ FLe(result.I, solid[2])
    /\ ( /\ section = "Square Tube"
         /\ Ran("calculate_section_properties")
         /\ IsNumber(result.A) )
       => LET a     == Dim("square_tube_od_input")
              solid == SquareProps(a)
          IN  /\ SquareTubeProps(a, FDiv(a, F(2))) = solid
              /\ FLe(result.A, solid[1])
              /\ FLe(result.I, solid[2])

\* The branch C9 gives for a load (P, a) at position xv.
C9_Term(load, xv, L, E, I, cantilever) ==
    LET P == load[1]
        a == load[2]
        b == FSub(L, a)
        EI6 == FMul(F(6), FMul(E, I))
    IN  IF cantilever
        THEN IF FLe(xv, a)
             THEN FDiv(FMul(P, FMul(FMul(xv, xv), FSub(FMul(F(3), a), xv))), EI6)
             ELSE FDiv(FMul(P, FMul(FMul(a, a), FSub(FMul(F(3), xv), a))), EI6)
        ELSE IF FLt(xv, a)
             THEN FDiv(FMul(FMul(P, b),
                            FMul(xv, FSub(FSub(FMul(L, L), FMul(b, b)),
                                          FMul(xv, xv)))),
                       FMul(EI6, L))
             ELSE FDiv(FMul(FMul(P, a),
                            FMul(FSub(L, xv),
                                 FSub(FSub(FMul(F(2), FMul(L, xv)),
                                           FMul(xv, xv)), FMul(a, a)))),
                       FMul(EI6, L))

C9_Sum(fs, xv, L, E, I, cantilever) ==
    LET sum[n \in 0..Len(fs)] ==
            IF n = 0 THEN F(0)
            ELSE FAdd(sum[n - 1], C9_Term(fs[n], xv, L, E, I, cantilever))
    IN  sum[Len(fs)]

C9_Holds(fs) ==
    Ran("calculate_deflection") =>
        \A i \in 1..Len(result.x) :
            /\ \A j \in 1..Len(fs) :
                   MaskBefore(single_support, result.x[i], fs[j][2])
                       # MaskAfter(single_support, result.x[i], fs[j][2])
            /\ result.y[i] = C9_Sum(fs, result.x[i], SpanLength,
                                    F(materials[material].E), result.I,
                                    single_support)

\* C9: at every sample position every stored load adds exactly one of the
\* two closed-form branches of the active support condition (x <= a / x > a
\* for the cantilever, x < a / x >= a when simply supported), never both and
\* never neither, and y is the sum of these terms.
C9_ExactlyOneBranchPerLoad == C9_Holds(forces)

\* The part of C9 that is about loads whose position is a number.
C9_NumericLoadsGetOneBranch ==
    (\A j \in 1..Len(forces) : IsNumber(forces[j][2])) => C9_Holds(forces)

\* C10: the computed deflection is exactly 0 at x = 0, and when simply
\* supported also at x = span length, for every load list and span length
\* the program can hold.
C10_ZeroAtSupports ==
    Ran("calculate_deflection") =>
        LET n == Len(result.x)
        IN  /\ result.x[1] = F(0) /\ result.x[n] = SpanLength
            /\ result.y[1] = F(0)
            /\ ~single_support => result.y[n] = F(0)

\* The part of C10 that is about the clamped end of the cantilever.
C10_ZeroAtClampedEnd ==
    (Ran("calculate_deflection") /\ single_support) => result.y[1] = F(0)

\* The part of C10 that is about loads lying within the current span.
C10_ZeroAtSupportsInSpan ==
    (\A i \in 1..Len(forces) : LoadInSpan(forces[i], SpanLength))
        => C10_ZeroAtSupports

\* The inputs of the last calculate_deflection, as calculate() passed them.
YoungsModulus == F(materials[material].E)

\* calculate_deflection for the current beam with the load list fs.
DeflectionFor(fs) ==
    calculate_deflection(result.x, SpanLength, YoungsModulus, result.I,
                         single_support, fs)

Reversed(fs) == [j \in 1..Len(fs) |-> fs[Len(fs) + 1 - j]]

\* C11: with span, support condition, E and I fixed, the deflection computed
\* for the load list equals at every sample the sum of the deflections that
\* calculate_deflection gives for each load alone, and it is the same for
\* the list in the opposite order.
C11_Superposition ==
    Ran("calculate_deflection") =>
        LET alone == [j \in 1..Len(forces) |-> DeflectionFor(<<forces[j]>>)]
            rev   == DeflectionFor(Reversed(forces))
        IN  \A i \in 1..Len(result.x) :
                LET sum[n \in 0..Len(forces)] ==
                        IF n = 0 THEN F(0) ELSE FAdd(sum[n - 1], alone[n][i])
                IN  /\ result.y[i] = sum[Len(forces)]
                    /\ result.y[i] = rev[i]

\* Two different loads stored, and a deflection computed from both.
C11_Witness ==
    /\ Len(forces) = 2
    /\ forces[1] # forces[2]
    /\ Ran("calculate_deflection")
    /\ \E i \in 1..Len(result.y) :
           /\ DeflectionFor(<<forces[1]>>)[i] # F(0)
           /\ DeflectionFor(<<forces[2]>>)[i] # F(0)

\* C12: for a stored load at a position a within [0, L], the two branch
\* formulas of the active support condition have the same value at x = a,
\* which is the deflection calculate_deflection gives there for that load
\* alone, whichever branch the tie-break selects.
C12_ContinuousAtLoad ==
    \A j \in 1..Len(forces) :
        (Ran("calculate_deflection") /\ LoadInSpan(forces[j], SpanLength)) =>
            LET P == forces[j][1]
                a == forces[j][2]
                L == SpanLength
                E == YoungsModulus
                I == result.I
                before == IF single_support
                          THEN CantileverBefore(P, a, a, E, I)
                          ELSE SupportedBefore(P, a, a, L, E, I)
                after  == IF single_support
                          THEN CantileverAfter(P, a, a, E, I)
                          ELSE SupportedAfter(P, a, a, L, E, I)
            IN  /\ before = after
                /\ DeflectionAt(<<forces[j]>>, a, L, E, I, single_support)
                       = before

\* A cantilever with one load at mid-span, where a sample lies on the load
\* and the deflection there is not 0.
C12_Witness ==
    /\ single_support
    /\ Len(forces) = 1
    /\ Ran("calculate_deflection")
    /\ LoadInSpan(forces[1], SpanLength)
    /\ \E i \in 1..Len(result.x) :
           result.x[i] = forces[1][2] /\ result.y[i] # F(0)

\* C13: with no stored load and otherwise valid inputs the calculation
\* succeeds under either support condition: the deflection is 0 at every
\* sample, the maximum deflection shown is 0, and the weight shown is
\* density * area * length / 1e9.
C13_EmptyLoadList ==
    (forces = <<>> /\ LengthValidPerSpec /\ SectionValidPerSpec) =>
        /\ Ran("calculate_deflection") /\ Ran("deflection_canvas.draw")
        /\ Len(result.y) = Len(result.x) /\ Len(result.x) = NumSamples
        /\ \A i \in 1..Len(result.y) : result.y[i] = F(0)
        /\ result.max_deflection = F(0)
        /\ deflection_label = DeflectionLabel(F(0))
        /\ IsNumber(result.A) /\ FGt(result.A, F(0))
        /\ result.weight =
               FDiv(FMul(FMul(F(materials[material].density), result.A),
                         SpanLength), F(1000000000))
        /\ weight_label = WeightLabel(result.weight)

\* The part of C13 that is about windows where the two line edits that
\* plot_cross_section reads for max_dim hold numbers.
C13_EmptyLoadListPlotted ==
    ~plot_cross_section_raises(section, text) => C13_EmptyLoadList

\* C14: for a stored load with 0 <= position <= L, alone on the beam, under
\* the active support condition: a positive magnitude gives a deflection
\* >= 0 at every sample, a negative one a deflection <= 0 at every sample,
\* and the load of opposite magnitude gives the opposite deflection.
C14_SignConvention ==
    \A j \in 1..Len(forces) :
        (Ran("calculate_deflection") /\ LoadInSpan(forces[j], SpanLength)) =>
            LET P   == forces[j][1]
                a   == forces[j][2]
                y   == DeflectionFor(<<forces[j]>>)
                neg == DeflectionFor(<< <<FNeg(P), a>> >>)
            IN  \A i \in 1..Len(result.x) :
                    /\ FGt(P, F(0)) => FGe(y[i], F(0))
                    /\ FLt(P, F(0)) => FLe(y[i], F(0))
                    /\ neg[i] = FNeg(y[i])

\* A simply supported beam with one downward load inside the span and a
\* sample that deflects downward.
C14_Witness ==
    /\ ~single_support
    /\ Len(forces) = 1
    /\ FLt(forces[1][1], F(0))
    /\ LoadInSpan(forces[1], SpanLength)
    /\ Ran("calculate_deflection")
    /\ \E i \in 1..Len(result.y) : FLt(result.y[i], F(0))

\* The window of the specification's example: Square of side 40 mm, span
\* 1000 mm, Aluminum.
C15_Example ==
    /\ section = "Square"
    /\ text["dimension_input"] = "40"
    /\ text["length_input"] = "1000"
    /\ material = "Aluminum"

\* C15 as the specification states it: in the example the area is 1600 mm^2
\* and the weight is 1.728e-1 kg, to the digits given.
C15_WeightAsStated ==
    C15_Example =>
        /\ result.A = F(1600)
        /\ FLe(Frac(17275, 1, 0, -5), result.weight)
        /\ FLe(result.weight, Frac(17285, 1, 0, -5))

\* C15: the weight is density [kg/m^3] * area [mm^2] * span length [mm]
\* / 1e9, in kg, and is what the weight label shows after a successful
\* calculation; in the example (density 2700 kg/m^3) the area is 1600 mm^2
\* and the weight is 4.32 kg.
C15_Weight ==
    Ran("calculate_section_properties") =>
        /\ result.weight =
               FDiv(FMul(F(materials[material].density),
                         FMul(result.A, SpanLength)),
                    F(1000 * 1000 * 1000))
        /\ Ran("deflection_canvas.draw")
               => weight_label = WeightLabel(result.weight)
        /\ C15_Example =>
               /\ materials[material].density = 2700
               /\ result.A = F(1600)
               /\ result.weight = Frac(432, 1, 0, -2)

\* The example window, recalculated after a force was added.
C15_Witness ==
    /\ C15_Example
    /\ Len(forces) = 1
    /\ weight_label = WeightLabel(Frac(432, 1, 0, -2))

\* C16: the maximum deflection reported is the largest |y| over the
\* samples, which are evenly spaced from 0 to L with both ends included; for
\* a cantilever with a single load P at the tip (a = L) it is
\* |P| * L^3 / (3 * E * I).
C16_MaxDeflection ==
    Ran("calculate_deflection") =>
        LET n    == Len(result.x)
            L    == SpanLength
            m    == result.max_deflection
            step == FDiv(L, F(n - 1))
        IN  /\ n = NumSamples /\ Len(result.y) = n
            /\ result.x[1] = F(0) /\ result.x[n] = L
            /\ \A i \in 1..(n - 1) :
                   FSub(result.x[i + 1], result.x[i]) = step
            /\ \A i \in 1..n : FLe(FAbs(result.y[i]), m)
            /\ \E i \in 1..n : FAbs(result.y[i]) = m
            /\ Ran("deflection_canvas.draw")
                   => deflection_label = DeflectionLabel(m)
            /\ (single_support /\ Len(forces) = 1 /\ forces[1][2] = L) =>
                   m = FDiv(FMul(FAbs(forces[1][1]), FMul(L, FMul(L, L))),
                            FMul(F(3), FMul(YoungsModulus, result.I)))

\* A cantilever with one downward load at its tip, and the maximum shown.
C16_Witness ==
    /\ single_support
    /\ Len(forces) = 1
    /\ forces[1][2] = SpanLength
    /\ FLt(forces[1][1], F(0))
    /\ Ran("deflection_canvas.draw")
    /\ FGt(result.max_deflection, F(0))
    /\ deflection_label = DeflectionLabel(result.max_deflection)

\* A position text that add_force reads as a number outside [0, L].
C17_BeyondSpan(p) ==
    /\ IsNumber(PyFloat(p)) /\ IsNumber(SpanLength)
    /\ FLt(PyFloat(p), F(0)) \/ FGt(PyFloat(p), SpanLength)

\* C17: submitting a load whose position is below 0 or beyond the span
\* length ends in the error outcome, and leaves the stored and the displayed
\* load lists as they were: no add_force step for such a position ends
\* otherwise.
C17_RejectedLoadReported ==
    \A p \in PositionTexts :
        C17_BeyondSpan(p) =>
            ~ENABLED ( /\ add_force({p})
                       /\ ~( /\ weight_label' = ErrorLabel
                             /\ deflection_label' = EmptyLabel
                             /\ forces' = forces
                             /\ force_list' = force_list ) )

\* The part of C17 that is about the two lists.
C17_RejectedLoadNotStored ==
    \A p \in PositionTexts :
        C17_BeyondSpan(p) =>
            ~ENABLED ( /\ add_force({p})
                       /\ ~(forces' = forces /\ force_list' = force_list) )

\* What one step of the window does to the inputs of calculate() and to
\* what calculate() wrote.  Every handler changes at most the one input it
\* is the handler of and then calculates, so a second input that changed
\* would have been changed by the calculation.
C18_Step ==
    /\ Cardinality({k \in 1..5 :
           <<section' # section, text' # text, material' # material,
             single_support' # single_support, forces' # forces>>[k]}) <= 1
    /\ Cardinality({f \in DOMAIN text : text'[f] # text[f]}) <= 1
    /\ forces' # forces =>
           \/ /\ Len(forces') = Len(forces) + 1
              /\ SubSeq(forces', 1, Len(forces)) = forces
           \/ \E i \in 1..Len(forces) :
                  forces' = SubSeq(forces, 1, i - 1)
                                \o SubSeq(forces, i + 1, Len(forces))
    /\ \E c \in {calculate(section', text', material', single_support',
                           forces')} :
           /\ weight_label' = c.weight_label
           /\ deflection_label' = c.deflection_label
           /\ calls' = c.calls
           /\ result' = c.result

\* C18: a calculation changes none of its inputs (the stored loads with
\* their order and values, the span length, the material, the support
\* condition, the section and its dimensions), and calculating again on the
\* inputs as they are after a step gives what the window already holds.
C18_CalculationKeepsInputs == [][C18_Step]_vars

\* Two loads stored and the material changed: a calculation ran on a list
\* that a faulty calculation could have reordered or shortened.
C18_Witness ==
    /\ Len(forces) = 2
    /\ forces[1] # forces[2]
    /\ material = "Steel"
    /\ Ran("calculate_deflection")

\* The i-th displayed entry shows the i-th stored load: its sign, the
\* absolute value of its magnitude and its position; no stored magnitude
\* is 0.
C19_Sync ==
    /\ Len(force_list) = Len(forces)
    /\ \A i \in 1..Len(forces) :
           /\ ~IsZero(forces[i][1])
           /\ force_list[i].magnitude = FAbs(forces[i][1])
           /\ force_list[i].position = forces[i][2]
           /\ force_list[i].sign = "+" <=> FGt(forces[i][1], F(0))
           /\ force_list[i].sign = "-" <=> FLt(forces[i][1], F(0))

C19_Without(seq, i) == [k \in 1..(Len(seq) - 1) |->
                           IF k < i THEN seq[k] ELSE seq[k + 1]]

C19_Step ==
    /\ C19_Sync'
    /\ Len(forces') > Len(forces) =>
           /\ Len(forces') = Len(forces) + 1
           /\ \A k \in 1..Len(forces) :
                  forces'[k] = forces[k] /\ force_list'[k] = force_list[k]
    /\ Len(forces') < Len(forces) =>
           \E i \in 1..Len(forces) :
               /\ forces' = C19_Without(forces, i)
               /\ force_list' = C19_Without(force_list, i)
    /\ Len(forces') = Len(forces) =>
           forces' = forces /\ force_list' = force_list

\* C19: after every step the stored and the displayed load lists have the
\* same length and the i-th entry shows the i-th load, whose magnitude is
\* not 0; a step that lengthens the lists appends one element to the end of
\* both, a step that shortens them removes the same index from both and
\* keeps the order of the rest, and any other step changes neither.
C19_ListsInStep == [][C19_Step]_vars

\* Two different loads stored and shown, in the order they were added.
C19_Witness ==
    /\ Len(forces) = 2 /\ Len(force_list) = 2
    /\ forces[1] # forces[2]
    /\ force_list[1] # force_list[2]
    /\ force_list[1].sign = "-" /\ force_list[2].sign = "+"

\* Positions in [0, L] for C20: a grid one point finer than the samples, so
\* that two different interior positions exist.
C20_Positions == linspace(SpanLength, NumSamples + 1)

\* The deflection at xv of the beam as it is, under the single load (P, a).
C20_Deflection(P, a, xv) ==
    DeflectionAt(<< <<P, a>> >>, xv, SpanLength, YoungsModulus, result.I,
                 single_support)

\* C20: for the active support condition, the magnitude P of any stored load
\* and all positions x, a in [0, L], the deflection at x under a single load
\* P at a equals the deflection at a under the same load at x; when simply
\* supported it also equals the deflection at L - x under the load at L - a.
C20_Reciprocity ==
    Ran("calculate_deflection") =>
        \A P \in {forces[j][1] : j \in 1..Len(forces)} :
            \A i, k \in 1..Len(C20_Positions) :
                LET xv == C20_Positions[i]
                    a  == C20_Positions[k]
                IN  /\ C20_Deflection(P, a, xv) = C20_Deflection(P, xv, a)
                    /\ ~single_support =>
                           C20_Deflection(P, a, xv)
                               = C20_Deflection(P, FSub(SpanLength, a),
                                                FSub(SpanLength, xv))

\* A simply supported beam carrying a load, on which two different interior
\* positions give a deflection that is not 0.
C20_Witness ==
    /\ ~single_support
    /\ Len(forces) = 1
    /\ Ran("calculate_deflection")
    /\ \E i, k \in 2..(Len(C20_Positions) - 1) :
           /\ i # k
           /\ C20_Deflection(forces[1][1], C20_Positions[k], C20_Positions[i])
                  # F(0)

\* What C21 says of the path built so far by the call.
C21_Path ==
    LET n   == Len(gd.path)
        lr  == gd.learning_rate
        tol == gd.tolerance
        \* the step that led to path[k] is shorter than the tolerance
        Below(k) ==
            LET dx == FSub(gd.path[k][1], gd.path[k - 1][1])
                dy == FSub(gd.path[k][2], gd.path[k - 1][2])
            IN  /\ FLt(F(0), tol)
                /\ FLt(FAdd(FMul(dx, dx), FMul(dy, dy)), FMul(tol, tol))
    IN  /\ 1 <= n /\ n <= gd.max_iters + 1
        /\ gd.path[1] = <<F(gd.starting_point[1]), F(gd.starting_point[2])>>
        /\ \A k \in 2..n :
               LET q == gd.path[k - 1]
               IN  gd.path[k] =
                       <<FSub(q[1], FMul(lr, FMul(F(2), FSub(q[1], F(3))))),
                         FSub(q[2], FMul(lr, FMul(F(2), FAdd(q[2], F(1)))))>>
        /\ \A k \in 2..(n - 1) : ~Below(k)
        /\ gd.pc = "for" => (n >= 2 => ~Below(n))
        /\ gd.pc = "return" => (n >= 2 /\ Below(n)) \/ n = gd.max_iters + 1

\* C21: gradient_descent returns, after at most max_iters iterations; the
\* path starts with the starting point and has between 1 and max_iters + 1
\* points, each later point is its predecessor minus learning_rate times
\* the gradient there, and the loop is left early exactly at the first step
\* shorter than tolerance, whose point is the last of the path.
C21_GradientDescent == []C21_Path /\ <>(gd.pc = "return")

\* A call that returned early: after two or more steps and with iterations
\* to spare.
C21_Witness ==
    /\ gd.pc = "return"
    /\ Len(gd.path) >= 3
    /\ Len(gd.path) <= gd.max_iters
    /\ gd.path[2] # gd.path[1]

\* The objective the grid search minimises, the smooth one written as the
\* claim writes it.
C22_Value(xy) ==
    IF doe.smooth_function
    THEN FAdd(FMul(FSub(xy[1], F(3)), FSub(xy[1], F(3))),
              FMul(FAdd(xy[2], F(1)), FAdd(xy[2], F(1))))
    ELSE objective_high_nonlinear(xy)

\* The k-th pair of the grid in x-outer, y-inner order.
C22_Pair(k) ==
    LET ny == Len(doe.y_vals)
    IN  <<doe.x_vals[((k - 1) \div ny) + 1], doe.y_vals[((k - 1) % ny) + 1]>>

\* Points at which the sign of the smooth objective is examined: around
\* (3, -1), and the grid.
C22_TestPoints ==
    {<<F(a), F(b)>> : a \in 2..4, b \in -2..0}
        \cup {C22_Pair(k) : k \in 1..(Len(doe.x_vals) * Len(doe.y_vals))}

\* C22: the grid search evaluates the pairs of the grid in x-outer, y-inner
\* order, each exactly once; when it prints, best_val is the least value of
\* the objective over the grid and best_x is the first pair in that order
\* with this value; the smooth objective is >= 0, and 0 only at (3, -1).
C22_GridSearch ==
    LET size == Len(doe.x_vals) * Len(doe.y_vals)
        n    == Len(doe.visited)
    IN  /\ n <= size
        /\ \A k \in 1..n : doe.visited[k] = C22_Pair(k)
        /\ \A k, l \in 1..size : k # l => C22_Pair(k) # C22_Pair(l)
        /\ doe.pc = "print" =>
               /\ n = size
               /\ IsNumber(doe.best_val)
               /\ \A k \in 1..size : FLe(doe.best_val, C22_Value(C22_Pair(k)))
               /\ \E k \in 1..size :
                      /\ doe.best_x = C22_Pair(k)
                      /\ C22_Value(C22_Pair(k)) = doe.best_val
                      /\ \A l \in 1..(k - 1) :
                             FGt(C22_Value(C22_Pair(l)), doe.best_val)
        /\ objective(<<F(3), F(-1)>>) = F(0)
        /\ \A xy \in C22_TestPoints :
               /\ FGe(objective(xy), F(0))
               /\ objective(xy) = F(0) => xy = <<F(3), F(-1)>>

\* A finished search of the full grid whose best pair is neither the first
\* nor the last pair evaluated.
C22_Witness ==
    /\ doe.pc = "print"
    /\ Len(doe.visited) = GridPoints * GridPoints
    /\ doe.best_x # doe.visited[1]
    /\ doe.best_x # doe.visited[Len(doe.visited)]

====
